---- MODULE Spec2Model ----
(***************************************************************************)
(* Model of transcoding.py: the prober get_video_info, the transcode       *)
(* encode_video, create_directory and the batch loop process_directory.    *)
(*                                                                         *)
(* The two external tools (ffprobe, ffmpeg) and the filesystem are the     *)
(* environment: each tool call draws its outcome from the set of outcomes  *)
(* the tool can produce.  The input and the output directory are distinct  *)
(* paths (./raw_videos and ./outputs in __main__), nothing but the program *)
(* modifies them, and path matching is the POSIX (case-sensitive) one.     *)
(***************************************************************************)
EXTENDS Integers, Sequences, FiniteSets, TLC

(***************************************************************************)
(* Bounds of the model.                                                    *)
(***************************************************************************)
\* number of consecutive runs of process_directory on the same directory pair
MaxRuns == 2
\* largest number of entries below the input directory
MaxEntries == 3
\* largest number of streams in the metadata ffprobe returns
MaxStreams == 2

(***************************************************************************)
(* File names are sequences of characters.                                 *)
(***************************************************************************)
DotMp4 == <<".", "m", "p", "4">>
A_mp4 == <<"a">> \o DotMp4
B_mp4 == <<"b">> \o DotMp4
A_MP4 == <<"a", ".", "M", "P", "4">>
A_mp4_bak == A_mp4 \o <<".", "b", "a", "k">>
Amp4 == <<"a", "m", "p", "4">>
SubDir == <<"d">>
Readme == <<"r">>

\* Paths relative to the input directory that the environment may hold: a
\* path of length 1 is an immediate child, a longer one lies in a subdirectory.
InputUniverse ==
  { <<A_mp4>>, <<B_mp4>>, <<A_MP4>>, <<A_mp4_bak>>, <<Amp4>>, <<SubDir, B_mp4>> }

\* the glob pattern of process_directory
Pattern == <<"*">> \o DotMp4

\* the output name prefix of process_directory
Prefix == <<"e", "n", "c", "o", "d", "e", "d", "_">>

(***************************************************************************)
(* Pure helpers.                                                           *)
(***************************************************************************)
\* the lower-case form of a character
Lower(c) == IF c = "M" THEN "m" ELSE IF c = "P" THEN "p" ELSE c

RECURSIVE fnmatchNoCase(_, _)
\* fnmatch as on a case-insensitive platform: both sides are lower-cased
fnmatchNoCase(name, pat) ==
  IF pat = <<>> THEN name = <<>>
  ELSE IF Head(pat) = "*"
       THEN \/ fnmatchNoCase(name, Tail(pat))
            \/ name # <<>> /\ fnmatchNoCase(Tail(name), pat)
       ELSE /\ name # <<>>
            /\ Lower(Head(name)) = Lower(Head(pat))
            /\ fnmatchNoCase(Tail(name), Tail(pat))

RECURSIVE fnmatch(_, _)
\* Shell-style match of a name against a pattern: "*" matches any run of
\* characters (also the empty one), every other character matches itself,
\* case-sensitively.
fnmatch(name, pat) ==
  IF pat = <<>> THEN name = <<>>
  ELSE IF Head(pat) = "*"
       THEN \/ fnmatch(name, Tail(pat))
            \/ name # <<>> /\ fnmatch(Tail(name), pat)
       ELSE /\ name # <<>>
            /\ Head(name) = Head(pat)
            /\ fnmatch(Tail(name), Tail(pat))

\* the immediate children of a directory, as paths relative to it: the files
\* directly in it and the subdirectories on the way to deeper files
Children(tree) == { <<p[1]>> : p \in tree }

\* input_file.name: the last component of a path
Name(path) == path[Len(path)]

\* input_dir.glob("*.mp4"): the immediate children whose name matches the
\* pattern, as paths relative to the input directory
Glob(tree) == { p \in Children(tree) : fnmatch(Name(p), Pattern) }

\* f"encoded_{input_file.name}"
OutputName(path) == Prefix \o Name(path)

\* all the orders in which a directory listing may return a set of names
Orders(S) ==
  { s \in [1..Cardinality(S) -> S] : \A i, j \in 1..Cardinality(S) : s[i] = s[j] => i = j }

Min(S) == CHOOSE x \in S : \A y \in S : x <= y

(***************************************************************************)
(* The prober.                                                             *)
(***************************************************************************)
\* The stream dictionaries ffprobe may report.  A dictionary is a function
\* whose domain is its set of keys, so that a missing key is a missing
\* element of the domain.
StreamDicts ==
  { [codec_type |-> "audio"],
    [codec_type |-> "video", width |-> 640, height |-> 480],
    [codec_type |-> "video", width |-> 320, height |-> 240],
    [codec_type |-> "video", height |-> 480],
    [codec_type |-> "video", width |-> 640] }

\* The format dictionaries ffprobe may report.
FormatDicts == { [format_name |-> "mp4", duration |-> 10], [format_name |-> "mp4"] }

StreamLists == UNION { [1..n -> StreamDicts] : n \in 0..MaxStreams }

\* What ffmpeg.probe(file_path) can do: raise ffmpeg.Error, or return the
\* metadata dictionary.
ProbeOutcomes ==
  { [error |-> TRUE, streams |-> <<>>, format |-> [format_name |-> "mp4"]] }
  \cup { [error |-> FALSE, streams |-> s, format |-> f] : s \in StreamLists, f \in FormatDicts }

\* The indexes of the streams whose codec_type is "video"
VideoStreams(probe) ==
  { i \in 1..Len(probe.streams) : probe.streams[i]["codec_type"] = "video" }

\* get_video_info on one outcome of ffmpeg.probe.  The result says how the
\* call ended: it returned None, it returned the MediaInfo dictionary, or an
\* exception left the function (only ffmpeg.Error is caught).
get_video_info(probe) ==
  IF probe.error
  THEN [kind |-> "None", exc |-> "", width |-> 0, height |-> 0, duration |-> 0]
  ELSE IF VideoStreams(probe) = {}
  THEN [kind |-> "raise", exc |-> "StopIteration", width |-> 0, height |-> 0, duration |-> 0]
  ELSE LET video_info == probe.streams[Min(VideoStreams(probe))]
       IN IF "width" \notin DOMAIN video_info
             \/ "height" \notin DOMAIN video_info
             \/ "duration" \notin DOMAIN probe.format
          THEN [kind |-> "raise", exc |-> "KeyError", width |-> 0, height |-> 0, duration |-> 0]
          ELSE [kind |-> "MediaInfo", exc |-> "",
                width |-> video_info["width"],
                height |-> video_info["height"],
                duration |-> probe.format["duration"]]

\* the value of info before the prober has been called for the current file
NoInfo == [kind |-> "unset", exc |-> "", width |-> 0, height |-> 0, duration |-> 0]

\* the probe outcome recorded before the prober has been called
NoProbe == [error |-> FALSE, streams |-> <<>>, format |-> [format_name |-> "none"]]

(***************************************************************************)
(* The transcode and the directory creation.                               *)
(***************************************************************************)
\* What the ffmpeg run of encode_video can do: succeed, or raise ffmpeg.Error
\* before it has opened the output, or raise it after it has written a part.
EncodeOutcomes == { "ok", "fail_clean", "fail_partial" }

\* The files of the output directory after the ffmpeg run of encode_video on
\* output name out: the run is given overwrite_output(), so it replaces what
\* is at the path as soon as it writes.
EncodeFiles(files, out, outcome) ==
  IF outcome = "ok"
  THEN [n \in DOMAIN files \cup {out} |-> IF n = out THEN "complete" ELSE files[n]]
  ELSE IF outcome = "fail_partial"
  THEN [n \in DOMAIN files \cup {out} |-> IF n = out THEN "partial" ELSE files[n]]
  ELSE files

\* encode_video's return value
encode_video(outcome) == outcome = "ok"

\* os.makedirs(directory_path, exist_ok=True): what the path is afterwards,
\* and whether the call raised.  An existing directory is left alone; a
\* missing path is created when the filesystem allows it; a path that is a
\* regular file, or a missing path that cannot be created, makes it raise.
makedirs(kind, creatable) ==
  IF kind = "dir" THEN [kind |-> "dir", raised |-> FALSE]
  ELSE IF kind = "absent" /\ creatable THEN [kind |-> "dir", raised |-> FALSE]
  ELSE [kind |-> kind, raised |-> TRUE]

\* create_directory's return value: False when makedirs raised
create_directory(kind, creatable) == ~ makedirs(kind, creatable).raised

(***************************************************************************)
(* State.                                                                  *)
(***************************************************************************)
VARIABLES
  inKind,        \* what the input path is: "absent", "file" or "dir"
  inTree,        \* the paths below the input directory
  outKind,       \* what the output path is: "absent", "file" or "dir"
  outCreatable,  \* whether makedirs can create the missing output path
  outFiles,      \* output directory: file name -> "old", "complete", "partial"
  run,           \* number of the current run of process_directory
  pc,            \* position in process_directory
  ending,        \* how the current run ended, "" while it runs
  mp4_files,     \* the list of matched files
  index,         \* enumerate's index of the current file
  probe,         \* get_video_info's local: what ffmpeg.probe gave
  info,          \* what get_video_info gave for the last probed file
  mkdirCalls,    \* calls of create_directory in this run
  probed,        \* paths passed to get_video_info in this run, in order
  encLog,        \* calls of encode_video in this run, in order
  skipped,       \* paths skipped in this run
  printed,       \* kinds of the messages printed in this run
  fs0,           \* the output path and its files when this run started
  prevEnding     \* how the previous run ended, "" in the first run

vars ==
  << inKind, inTree, outKind, outCreatable, outFiles, run, pc, ending,
     mp4_files, index, probe, info, mkdirCalls, probed, encLog, skipped,
     printed, fs0, prevEnding >>

env == << inKind, inTree, outCreatable >>

\* The names a pre-existing output directory may hold.
OutputUniverse == { OutputName(<<A_mp4>>), OutputName(<<B_mp4>>), Readme }

NoFiles == [n \in {} |-> "old"]

Init ==
  /\ inKind \in { "absent", "file", "dir" }
  /\ inTree \in { t \in SUBSET InputUniverse : Cardinality(t) <= MaxEntries }
  /\ inKind # "dir" => inTree = {}
  /\ outKind \in { "absent", "file", "dir" }
  /\ outCreatable \in BOOLEAN
  /\ outKind # "absent" => outCreatable
  /\ outFiles \in UNION { [d -> {"old"}] : d \in SUBSET OutputUniverse }
  /\ outKind # "dir" => outFiles = NoFiles
  /\ run = 1
  /\ pc = "validate"
  /\ ending = ""
  /\ mp4_files = <<>>
  /\ index = 0
  /\ probe = NoProbe
  /\ info = NoInfo
  /\ mkdirCalls = 0
  /\ probed = <<>>
  /\ encLog = <<>>
  /\ skipped = {}
  /\ printed = {}
  /\ fs0 = [kind |-> outKind, files |-> outFiles]
  /\ prevEnding = ""

(***************************************************************************)
(* process_directory, one action per step.                                 *)
(***************************************************************************)
\* Validate with the is_dir() test left out: only a missing path is refused
ValidateExistsOnly ==
  /\ pc = "validate"
  /\ IF inKind = "absent"
     THEN /\ printed' = printed \cup {"invalid_input"}
          /\ pc' = "done"
          /\ ending' = "invalid_input"
     ELSE /\ pc' = "create"
          /\ UNCHANGED << printed, ending >>
  /\ UNCHANGED << env, outKind, outFiles, run, mp4_files, index, probe, info,
                  mkdirCalls, probed, encLog, skipped, fs0, prevEnding >>

\* if not input_dir.exists() or not input_dir.is_dir(): print; return
Validate ==
  /\ pc = "validate"
  /\ IF inKind # "dir"
     THEN /\ printed' = printed \cup {"invalid_input"}
          /\ pc' = "done"
          /\ ending' = "invalid_input"
     ELSE /\ pc' = "create"
          /\ UNCHANGED << printed, ending >>
  /\ UNCHANGED << env, outKind, outFiles, run, mp4_files, index, probe, info,
                  mkdirCalls, probed, encLog, skipped, fs0, prevEnding >>

\* EnsureOutput with create_directory's result ignored: the run goes on
EnsureOutputIgnoresResult ==
  /\ pc = "create"
  /\ mkdirCalls' = mkdirCalls + 1
  /\ pc' = "glob"
  /\ outKind' = makedirs(outKind, outCreatable).kind
  /\ UNCHANGED << env, outFiles, run, ending, mp4_files, index, probe, info,
                  probed, encLog, skipped, printed, fs0, prevEnding >>

\* if not create_directory(output_dir): print; return
EnsureOutput ==
  /\ pc = "create"
  /\ mkdirCalls' = mkdirCalls + 1
  /\ IF create_directory(outKind, outCreatable)
     THEN /\ pc' = "glob"
          /\ UNCHANGED << printed, ending >>
     ELSE /\ printed' = printed \cup {"create_error", "create_failed"}
          /\ pc' = "done"
          /\ ending' = "create_failed"
  /\ outKind' = makedirs(outKind, outCreatable).kind
  /\ UNCHANGED << env, outFiles, run, mp4_files, index, probe, info,
                  probed, encLog, skipped, fs0, prevEnding >>

\* Enumerate with the total_files == 0 test left out: the loop runs on the
\* empty list
EnumerateNoEmptyCheck ==
  /\ pc = "glob"
  /\ mp4_files' \in Orders(Glob(inTree))
  /\ index' = 1
  /\ printed' = printed \cup {"found"}
  /\ pc' = "loop"
  /\ UNCHANGED << env, outKind, outFiles, run, ending, probe, info, mkdirCalls,
                  probed, encLog, skipped, fs0, prevEnding >>

\* mp4_files = list(input_dir.glob("*.mp4")); if total_files == 0: print; return
Enumerate ==
  /\ pc = "glob"
  /\ IF Glob(inTree) = {}
     THEN /\ printed' = printed \cup {"no_files"}
          /\ pc' = "done"
          /\ ending' = "no_files"
          /\ UNCHANGED << mp4_files, index >>
     ELSE /\ mp4_files' \in Orders(Glob(inTree))
          /\ index' = 1
          /\ printed' = printed \cup {"found"}
          /\ pc' = "loop"
          /\ UNCHANGED ending
  /\ UNCHANGED << env, outKind, outFiles, run, probe, info, mkdirCalls,
                  probed, encLog, skipped, fs0, prevEnding >>

\* LoopHead with the skip rule left out: every matched file is processed
LoopHeadNoSkip ==
  /\ pc = "loop"
  /\ IF index > Len(mp4_files)
     THEN /\ pc' = "done"
          /\ ending' = "normal"
          /\ UNCHANGED printed
     ELSE /\ printed' = printed \cup {"processing"}
          /\ pc' = "probe"
          /\ UNCHANGED ending
  /\ UNCHANGED << env, outKind, outFiles, run, mp4_files, index, probe, info,
                  mkdirCalls, probed, encLog, skipped, fs0, prevEnding >>

\* LoopHead with the skip rule testing output_dir / input_file.name, the
\* output path without its prefix
LoopHeadChecksInputName ==
  /\ pc = "loop"
  /\ IF index > Len(mp4_files)
     THEN /\ pc' = "done"
          /\ ending' = "normal"
          /\ UNCHANGED << index, skipped, printed >>
     ELSE IF Name(mp4_files[index]) \in DOMAIN outFiles
     THEN /\ printed' = printed \cup {"skip"}
          /\ skipped' = skipped \cup {mp4_files[index]}
          /\ index' = index + 1
          /\ UNCHANGED << pc, ending >>
     ELSE /\ printed' = printed \cup {"processing"}
          /\ pc' = "probe"
          /\ UNCHANGED << index, skipped, ending >>
  /\ UNCHANGED << env, outKind, outFiles, run, mp4_files, probe, info,
                  mkdirCalls, probed, encLog, fs0, prevEnding >>

\* the for statement: the next file if there is one, the end of the run if not
\* (the function returns after the last file); then the skip rule
LoopHead ==
  /\ pc = "loop"
  /\ IF index > Len(mp4_files)
     THEN /\ pc' = "done"
          /\ ending' = "normal"
          /\ UNCHANGED << index, skipped, printed >>
     ELSE IF OutputName(mp4_files[index]) \in DOMAIN outFiles
     THEN /\ printed' = printed \cup {"skip"}
          /\ skipped' = skipped \cup {mp4_files[index]}
          /\ index' = index + 1
          /\ UNCHANGED << pc, ending >>
     ELSE /\ printed' = printed \cup {"processing"}
          /\ pc' = "probe"
          /\ UNCHANGED << index, skipped, ending >>
  /\ UNCHANGED << env, outKind, outFiles, run, mp4_files, probe, info,
                  mkdirCalls, probed, encLog, fs0, prevEnding >>

\* info = get_video_info(str(input_file)), first half: ffmpeg.probe(file_path)
CallProbe ==
  /\ pc = "probe"
  /\ probed' = Append(probed, mp4_files[index])
  /\ probe' \in ProbeOutcomes
  /\ pc' = "info"
  /\ UNCHANGED << env, outKind, outFiles, run, ending, mp4_files, index, info,
                  mkdirCalls, encLog, skipped, printed, fs0, prevEnding >>

\* info = get_video_info(str(input_file)), second half: the rest of the
\* function and the caller's print.  An exception that leaves get_video_info
\* leaves process_directory too: no statement of it catches any.
ProbeReturn ==
  /\ pc = "info"
  /\ info' = get_video_info(probe)
  /\ probe' = NoProbe
  /\ IF info'.kind = "raise"
     THEN /\ pc' = "done"
          /\ ending' = "exception"
          /\ UNCHANGED printed
     ELSE /\ pc' = "encode"
          /\ printed' = printed \cup
               (IF info'.kind = "None" THEN {"probe_failed"} ELSE {"video_info"})
          /\ UNCHANGED ending
  /\ UNCHANGED << env, outKind, outFiles, run, mp4_files, index,
                  mkdirCalls, probed, encLog, skipped, fs0, prevEnding >>

\* Encode with a failed file tried again: the index moves on only after a
\* success (at most four calls, to keep the log finite)
EncodeRetry ==
  /\ pc = "encode"
  /\ Len(encLog) < 4
  /\ \E outcome \in EncodeOutcomes :
       LET out == OutputName(mp4_files[index]) IN
       /\ outKind # "dir" => outcome = "fail_clean"
       /\ encLog' = Append(encLog, [path |-> mp4_files[index],
                                    outcome |-> outcome,
                                    existed |-> out \in DOMAIN outFiles])
       /\ outFiles' = EncodeFiles(outFiles, out, outcome)
       /\ printed' = printed \cup
            (IF encode_video(outcome) THEN {"completed"} ELSE {"encode_error", "encode_failed"})
       /\ IF encode_video(outcome)
          THEN index' = index + 1 /\ pc' = "loop"
          ELSE index' = index /\ pc' = "encode"
  /\ UNCHANGED << env, outKind, run, ending, mp4_files, probe, info,
                  mkdirCalls, probed, skipped, fs0, prevEnding >>

\* if encode_video(str(input_file), str(output_file)): print ... else: print
Encode ==
  /\ pc = "encode"
  /\ \E outcome \in EncodeOutcomes :
       LET out == OutputName(mp4_files[index]) IN
       \* ffmpeg writes nothing below a path that is not a directory
       /\ outKind # "dir" => outcome = "fail_clean"
       /\ encLog' = Append(encLog, [path |-> mp4_files[index],
                                    outcome |-> outcome,
                                    existed |-> out \in DOMAIN outFiles])
       /\ outFiles' = EncodeFiles(outFiles, out, outcome)
       /\ printed' = printed \cup
            (IF encode_video(outcome) THEN {"completed"} ELSE {"encode_error", "encode_failed"})
  /\ index' = index + 1
  /\ pc' = "loop"
  /\ UNCHANGED << env, outKind, run, ending, mp4_files, probe, info,
                  mkdirCalls, probed, skipped, fs0, prevEnding >>

\* process_directory is called again on the same pair of directories
StartRun ==
  /\ pc = "done"
  /\ run < MaxRuns
  /\ run' = run + 1
  /\ pc' = "validate"
  /\ prevEnding' = ending
  /\ ending' = ""
  /\ mp4_files' = <<>>
  /\ index' = 0
  /\ probe' = NoProbe
  /\ info' = NoInfo
  /\ mkdirCalls' = 0
  /\ probed' = <<>>
  /\ encLog' = <<>>
  /\ skipped' = {}
  /\ printed' = {}
  /\ fs0' = [kind |-> outKind, files |-> outFiles]
  /\ UNCHANGED << env, outKind, outFiles >>

Next ==
  \/ Validate
  \/ EnsureOutput
  \/ Enumerate
  \/ LoopHead
  \/ CallProbe
  \/ ProbeReturn
  \/ Encode
  \/ StartRun

Spec == Init /\ [][Next]_vars

(***************************************************************************)
(* Vocabulary of the properties.                                           *)
(***************************************************************************)
\* the paths encode_video was called on in this run
EncPaths == { encLog[i].path : i \in 1..Len(encLog) }

\* the paths get_video_info was called on in this run
ProbedPaths == { probed[i] : i \in 1..Len(probed) }

\* the files of the output directory that were not there when the run started
NewOutputs == DOMAIN outFiles \ DOMAIN fs0.files

\* every file that was there when the run started is there with its content
OldFilesKept ==
  \A n \in DOMAIN fs0.files : n \in DOMAIN outFiles /\ outFiles[n] = fs0.files[n]

\* the output path and the files below it are as when the run started
FilesystemUnchanged == outKind = fs0.kind /\ outFiles = fs0.files

\* the messages that report an error
ErrorKinds ==
  { "invalid_input", "create_error", "create_failed", "probe_failed",
    "encode_error", "encode_failed" }

\* the run got past the two directory checks
SetupPassed == inKind = "dir" /\ ~ makedirs(fs0.kind, outCreatable).raised

\* a name ends in the characters of suf
EndsWith(name, suf) ==
  /\ Len(name) >= Len(suf)
  /\ SubSeq(name, Len(name) - Len(suf) + 1, Len(name)) = suf

\* a path is an immediate child of the input directory with a name in .mp4
IsTopLevelMp4(path) == Len(path) = 1 /\ EndsWith(path[1], DotMp4)

\* the matched files whose output was missing when the run started
Pending == { p \in Glob(inTree) : OutputName(p) \notin DOMAIN fs0.files }

(***************************************************************************)
(* C1                                                                      *)
(***************************************************************************)
\* C1: a run that got past the directory checks never aborts because of one
\* file: whatever the probe and the transcode of each file do, the run ends
\* normally (after the last file, or with "no files found"), and every
\* matched file whose output did not exist reached the transcode.
C1_NeverAborts ==
  (pc = "done" /\ SetupPassed) =>
    /\ ending \in { "normal", "no_files" }
    /\ Pending \subseteq EncPaths

(***************************************************************************)
(* C2                                                                      *)
(***************************************************************************)
\* C2: get_video_info never raises: when the inspection call fails or the
\* metadata holds no stream of type "video" it returns None, and it returns a
\* MediaInfo only when a video stream was found.
C2_ProberNeverRaises ==
  [][ pc = "info" =>
        /\ info'.kind # "raise"
        /\ (probe.error \/ VideoStreams(probe) = {}) => info'.kind = "None"
        /\ info'.kind = "MediaInfo" => VideoStreams(probe) # {} ]_vars

(***************************************************************************)
(* C3                                                                      *)
(***************************************************************************)
\* C3: a run that got past the directory checks, with none of the outputs of
\* the N matched files there at its start and no transcode failing, ends with
\* exactly N new output files, encoded_<name> for each matched file, and no
\* other file created or changed.
C3_ExactlyNOutputs ==
  ( /\ pc = "done"
    /\ SetupPassed
    /\ Pending = Glob(inTree)
    /\ \A i \in 1..Len(encLog) : encLog[i].outcome = "ok" ) =>
    /\ NewOutputs = { OutputName(p) : p \in Glob(inTree) }
    /\ Cardinality(NewOutputs) = Cardinality(Glob(inTree))
    /\ \A n \in NewOutputs : outFiles[n] = "complete"
    /\ OldFilesKept

C5_LaterSuccessSurvives ==
  pc = "done" =>
    \A i, j \in 1..Len(encLog) :
      ( /\ i < j
        /\ encLog[i].outcome # "ok"
        /\ encLog[j].outcome = "ok"
        /\ {encLog[i].path, encLog[j].path} \subseteq Pending ) =>
        /\ OutputName(encLog[j].path) \in DOMAIN outFiles
        /\ outFiles[OutputName(encLog[j].path)] = "complete"
        /\ \/ OutputName(encLog[i].path) \notin DOMAIN outFiles
           \/ outFiles[OutputName(encLog[i].path)] = "partial"
        /\ Cardinality({ k \in 1..Len(encLog) : encLog[k].path = encLog[i].path }) = 1

\* C5 witness: a run has ended in which the first transcode failed and the
\* second one succeeded.
C5_Witness ==
  /\ pc = "done"
  /\ Len(encLog) = 2
  /\ encLog[1].outcome = "fail_clean"
  /\ encLog[2].outcome = "ok"
  /\ OutputName(encLog[2].path) \in DOMAIN outFiles

(***************************************************************************)
(* C6                                                                      *)
(***************************************************************************)
\* C6: when the input path is missing or is not a directory, the run calls
\* the prober, the transcode and the directory creation zero times, leaves
\* the filesystem as it was, and ends with the input reported invalid.
C6_InvalidInputDoesNothing ==
  inKind # "dir" =>
    /\ probed = <<>>
    /\ encLog = <<>>
    /\ mkdirCalls = 0
    /\ FilesystemUnchanged
    /\ pc = "done" => ending = "invalid_input"

\* C6 witness: a run on an input path that is a regular file has ended, the
\* output path still missing.
C6_Witness ==
  /\ pc = "done"
  /\ inKind = "file"
  /\ ending = "invalid_input"
  /\ outKind = "absent"
  /\ outCreatable

(***************************************************************************)
(* C7                                                                      *)
(***************************************************************************)
\* C7 as stated: in every run the output directory exists before the first
\* transcode, its creation is attempted exactly once in the run, and a failed
\* creation means zero probes and zero transcodes.
C7_CreatedOnceInEveryRun ==
  /\ pc = "encode" => outKind = "dir"
  /\ pc = "done" => mkdirCalls = 1
  /\ ending = "create_failed" => (probed = <<>> /\ encLog = <<>>)

\* C7 as amended: creation is attempted at most once in a run; in a run whose
\* input directory is valid it is attempted exactly once, before the files
\* are listed, so the output directory exists before every probe and
\* transcode; a failed creation means zero probes and zero transcodes; a run
\* whose input path is invalid attempts no creation.
C7_CreatedOnceWhenInputValid ==
  /\ mkdirCalls <= 1
  /\ pc \in { "glob", "loop", "probe", "info", "encode" } =>
       (mkdirCalls = 1 /\ outKind = "dir")
  /\ (probed # <<>> \/ encLog # <<>>) => (mkdirCalls = 1 /\ outKind = "dir")
  /\ pc = "done" => mkdirCalls = (IF inKind = "dir" THEN 1 ELSE 0)
  /\ ending = "create_failed" => (probed = <<>> /\ encLog = <<>>)

\* C7 witness: a run that found the output path missing has ended normally
\* after two transcodes and one creation.
C7_Witness ==
  /\ pc = "done"
  /\ ending = "normal"
  /\ fs0.kind = "absent"
  /\ outKind = "dir"
  /\ Len(encLog) = 2
  /\ mkdirCalls = 1

(***************************************************************************)
(* C8                                                                      *)
(***************************************************************************)
\* C8: every path listed, probed or transcoded is an immediate child of the
\* input directory whose name ends in the lower-case suffix .mp4; every new
\* output file is encoded_<name> of a transcoded path; so an entry that does
\* not match (upper-case suffix, longer suffix, no dot, inside a
\* subdirectory) is never probed or transcoded and, unless a matching file
\* of the same name exists, no encoded_ output of its name appears.
C8_OnlyTopLevelMp4 ==
  /\ \A i \in 1..Len(mp4_files) : mp4_files[i] \in inTree /\ IsTopLevelMp4(mp4_files[i])
  /\ \A p \in ProbedPaths \cup EncPaths \cup skipped : p \in inTree /\ IsTopLevelMp4(p)
  /\ \A n \in NewOutputs : \E p \in EncPaths : n = OutputName(p)
  /\ \A q \in inTree :
       ~ IsTopLevelMp4(q) =>
         /\ q \notin ProbedPaths \cup EncPaths
         /\ (\A p \in inTree : IsTopLevelMp4(p) => Name(p) # Name(q)) =>
              OutputName(q) \notin NewOutputs

\* C8 witness: a run over a directory holding a.mp4, a.MP4 and d/b.mp4 has
\* ended having transcoded one file with success.
C8_Witness ==
  /\ pc = "done"
  /\ inTree = { <<A_mp4>>, <<A_MP4>>, <<SubDir, B_mp4>> }
  /\ Len(encLog) = 1
  /\ encLog[1].outcome = "ok"
  /\ NewOutputs = { OutputName(<<A_mp4>>) }

(***************************************************************************)
(* C9                                                                      *)
(***************************************************************************)
\* C9 as stated: when the input directory is valid and holds no file matching
\* *.mp4, the run reports that no files were found, calls no probe and no
\* transcode, ends successfully and leaves the filesystem as it was.
C9_NoMatchChangesNothing ==
  (inKind = "dir" /\ Glob(inTree) = {}) =>
    /\ probed = <<>>
    /\ encLog = <<>>
    /\ FilesystemUnchanged
    /\ pc = "done" => (ending = "no_files" /\ "no_files" \in printed)

\* C9 as amended: when the input directory is valid, holds no file matching
\* *.mp4, and the output directory exists or can be created, the run reports
\* that no files were found, reports no error, calls no probe and no
\* transcode, ends successfully and creates or changes no file; the one
\* change it makes is to create the output directory when it was missing.
C9_NoMatchOnlyCreatesOutputDir ==
  (SetupPassed /\ Glob(inTree) = {}) =>
    /\ probed = <<>>
    /\ encLog = <<>>
    /\ outFiles = fs0.files
    /\ outKind \in { fs0.kind, "dir" }
    /\ pc = "done" =>
         /\ ending = "no_files"
         /\ "no_files" \in printed
         /\ printed \cap ErrorKinds = {}
         /\ outKind = "dir"

\* C9 witness: a run over a directory holding only files that do not match
\* has ended with "no files found", having created the missing output
\* directory.
C9_Witness ==
  /\ pc = "done"
  /\ ending = "no_files"
  /\ inTree = { <<A_MP4>>, <<A_mp4_bak>> }
  /\ fs0.kind = "absent"
  /\ outKind = "dir"

(***************************************************************************)
(* C10                                                                     *)
(***************************************************************************)
\* C10: encode_video is never called with an output path at which a file
\* exists, so no file that was in the output directory before the run, and
\* no output written earlier in the run, is overwritten.
C10_NeverOverwrites ==
  /\ \A i \in 1..Len(encLog) : ~ encLog[i].existed
  /\ pc = "encode" => OutputName(mp4_files[index]) \notin DOMAIN outFiles
  /\ OldFilesKept
  /\ \A i, j \in 1..Len(encLog) :
       i # j => OutputName(encLog[i].path) # OutputName(encLog[j].path)

\* C10 witness: a run over two matched files has ended having skipped the
\* one whose output was there and transcoded the other, next to a file of
\* another name.
C10_Witness ==
  /\ pc = "done"
  /\ Cardinality(skipped) = 1
  /\ Len(encLog) = 1
  /\ encLog[1].outcome = "ok"
  /\ Readme \in DOMAIN fs0.files

====
